---- MODULE Spec2Model ----
(***************************************************************************)
(* A model of honeybadger_mcp_server/server.py: the lifespan of the shared *)
(* HTTP client (honeybadger_lifespan, serve) and the two tools dispatched  *)
(* by call_tool (list_faults, get_fault_details) through make_request.     *)
(*                                                                         *)
(* Text (str) is a sequence of tokens, so that formatting, substitution    *)
(* into a path and JSON parsing are computed and not assumed.  A Python    *)
(* value is a record [tag, i, s]; a dict is a function from its keys.      *)
(***************************************************************************)
EXTENDS Integers, Sequences, FiniteSets, TLC

VARIABLES
    pc,          \* where serve() stands
    project_id,  \* serve's arguments, kept in HoneybadgerContext
    api_key,
    client,      \* the aiohttp.ClientSession: "none", "open" or "closed"
    opened,      \* how many times a ClientSession was constructed
    closed,      \* how many times client.close() ran
    registered,  \* whether call_tool is registered on the server
    error,       \* the exception serve() is unwinding with, "none" if none
    everServed,  \* whether call_tool was ever entered
    tasks        \* the call_tool invocations, one per handler task

vars == <<pc, project_id, api_key, client, opened, closed, registered, error,
          everServed, tasks>>

(***************************************************************************)
(* Bounds of the model.                                                    *)
(***************************************************************************)
MaxTasks == 2

(***************************************************************************)
(* Program constants.                                                      *)
(***************************************************************************)
HONEYBADGER_API_BASE_URL == "https://app.honeybadger.io/v2"

HttpOk == 200

ListFaultsDefaultLimit == 25

GetFaultDetailsDefaultLimit == 1

SchemaMaximum == 25

LIST_FAULTS == "list_faults"

GET_FAULT_DETAILS == "get_fault_details"

(***************************************************************************)
(* Python values.                                                          *)
(***************************************************************************)
Absent == [tag |-> "absent", i |-> 0, s |-> <<>>]

None == [tag |-> "none", i |-> 0, s |-> <<>>]

IntV(n) == [tag |-> "int", i |-> n, s |-> <<>>]

StrV(text) == [tag |-> "str", i |-> 0, s |-> text]

\* A JSON document nested in a dict, held as its text.
JsonV(text) == [tag |-> "json", i |-> 0, s |-> text]

ArgKeys ==
    {"q", "created_after", "occurred_after", "occurred_before",
     "created_before", "limit", "order", "fault_id"}

NoArguments == [k \in ArgKeys |-> Absent]

\* arguments.get(key, default); a key that is present with None yields None.
ArgGet(arguments, key, default) ==
    IF arguments[key] = Absent THEN default ELSE arguments[key]

(***************************************************************************)
(* The request models.  pydantic validates the declared field types only:  *)
(* the "maximum" of json_schema_extra is schema text, not a constraint.    *)
(***************************************************************************)
ListFaultsRequestValid(arguments) ==
    /\ arguments["q"].tag \in {"absent", "none", "str"}
    /\ \A k \in {"created_after", "occurred_after", "occurred_before"} :
           arguments[k].tag \in {"absent", "none", "int"}
    /\ arguments["limit"].tag \in {"absent", "int"}
    /\ \/ arguments["order"].tag = "absent"
       \/ /\ arguments["order"].tag = "str"
          /\ arguments["order"].s \in {<<"recent">>, <<"frequent">>}

ListFaultsRequest(arguments) ==
    [q               |-> ArgGet(arguments, "q", None),
     created_after   |-> ArgGet(arguments, "created_after", None),
     occurred_after  |-> ArgGet(arguments, "occurred_after", None),
     occurred_before |-> ArgGet(arguments, "occurred_before", None),
     limit           |-> ArgGet(arguments, "limit", IntV(ListFaultsDefaultLimit)),
     order           |-> ArgGet(arguments, "order", StrV(<<"frequent">>))]

(***************************************************************************)
(* Building the request.                                                   *)
(***************************************************************************)
\* A mutant of DropNone: `if v` in place of `if v is not None`.
DropFalsy(params) ==
    [k \in {x \in DOMAIN params :
                /\ params[x] # None
                /\ params[x] # IntV(0)
                /\ params[x] # StrV(<<>>)} |-> params[k]]

\* {k: v for k, v in params.items() if v is not None}
DropNone(params) ==
    [k \in {x \in DOMAIN params : params[x] # None} |-> params[k]]

ListFaultsParams(q, created_after, occurred_after, occurred_before, limit, order) ==
    DropNone([q               |-> q,
              created_after   |-> created_after,
              occurred_after  |-> occurred_after,
              occurred_before |-> occurred_before,
              limit           |-> limit,
              order           |-> order])

GetFaultDetailsParams(created_after, created_before, limit) ==
    DropNone([created_after  |-> created_after,
              created_before |-> created_before,
              limit          |-> limit])

ListFaultsEndpoint == <<"/faults">>

\* What an f-string makes of a value: a str as it is, None as "None".
PyFormat(v) == IF v.tag = "none" THEN <<"None">> ELSE v.s

\* f"/faults/{fault_id}/notices": the fault id is substituted as it is.
GetFaultDetailsEndpoint(fault_id) ==
    <<"/faults/">> \o PyFormat(fault_id) \o <<"/notices">>

\* f"{HONEYBADGER_API_BASE_URL}/projects/{ctx.project_id}{endpoint}"
MakeUrl(projectId, endpoint) ==
    <<HONEYBADGER_API_BASE_URL, "/projects/">> \o projectId \o endpoint

\* ctx.client.get(url): the client requotes the URL it is given, which turns a
\* space into %20 and leaves the delimiters "/", "?" and "#" as they are.
ClientRequote(url) ==
    [n \in DOMAIN url |-> IF url[n] = " " THEN "%20" ELSE url[n]]

NoRequest == [url |-> <<>>, params |-> <<>>]

Request(projectId, endpoint, params) ==
    [url |-> ClientRequote(MakeUrl(projectId, endpoint)), params |-> params]

(***************************************************************************)
(* The upstream's answers.  A body is text; a JSON object is the text      *)
(* "{", key, ":", value, "}".                                              *)
(***************************************************************************)
Statuses == {HttpOk, 404, 500}

StatusText(status) ==
    CASE status = 200 -> "200"
      [] status = 404 -> "404"
      [] status = 500 -> "500"

EmptyResults == <<"{", "results", ":", "[]", "}">>

SomeResults == <<"{", "results", ":", "[{}]", "}">>

NotFound == <<"Not Found">>

Bodies == {EmptyResults, SomeResults, NotFound, <<>>}

NoResponse == [status |-> 0, body |-> <<>>]

\* Every answer but a 200 with an empty body, on which json() is not modelled.
Responses ==
    {r \in [status : Statuses, body : Bodies] :
        ~(r.status = HttpOk /\ r.body = <<>>)}

JsonValid(body) ==
    /\ Len(body) = 5
    /\ body[1] = "{"
    /\ body[3] = ":"
    /\ body[5] = "}"

\* json.loads of a JSON object: the dict of its member.
JsonLoads(body) == (body[2] :> JsonV(<<body[4]>>))

JsonDecodeMessage == <<"Expecting value: line 1 column 1 (char 0)">>

ErrorDict(message) == ("error" :> StrV(message))

\* f"HTTP {response.status} - {error_text}"
HttpErrorText(status, error_text) ==
    <<"HTTP ", StatusText(status), " - ">> \o error_text

Returned(value) == [exc |-> "", msg |-> <<>>, value |-> value]

Raised(exc, message) == [exc |-> exc, msg |-> message, value |-> <<>>]

\* A mutant of MakeRequestResult: response.raise_for_status() in place of
\* the returned error dict.
MakeRequestRaiseForStatus(response) ==
    IF response.status # HttpOk
    THEN Raised("ClientResponseError",
                <<StatusText(response.status), ", message=">> \o response.body)
    ELSE IF JsonValid(response.body)
         THEN Returned(JsonLoads(response.body))
         ELSE Raised("JSONDecodeError", JsonDecodeMessage)

\* A mutant of MakeRequestResult: a body that does not parse is reported as
\* an HTTP error.
MakeRequestMergeErrors(response) ==
    IF response.status # HttpOk \/ ~JsonValid(response.body)
    THEN Returned(ErrorDict(HttpErrorText(response.status, response.body)))
    ELSE Returned(JsonLoads(response.body))

\* make_request, from the response on: what it returns or raises.
MakeRequestResult(response) ==
    IF response.status # HttpOk
    THEN Returned(ErrorDict(HttpErrorText(response.status, response.body)))
    ELSE IF JsonValid(response.body)
         THEN Returned(JsonLoads(response.body))
         ELSE Raised("JSONDecodeError", JsonDecodeMessage)

\* call_tool's return and its except clause: the dict whose str() is
\* the text of the TextContent handed back.
CallToolResult(outcome) ==
    IF outcome.exc # "" THEN ErrorDict(outcome.msg) ELSE outcome.value

(***************************************************************************)
(* The handler tasks.                                                      *)
(***************************************************************************)
Idle ==
    [phase        |-> "idle",
     name         |-> "",
     arguments    |-> NoArguments,
     sent         |-> 0,
     clientAtSend |-> "none",
     request      |-> NoRequest,
     response     |-> NoResponse,
     exc          |-> "",
     result       |-> <<>>]

\* The task once ctx.client.get(url, params=params) was called.
Awaiting(name, arguments, request, clientNow) ==
    [Idle EXCEPT !.phase = "awaiting", !.name = name, !.arguments = arguments,
                 !.sent = 1, !.clientAtSend = clientNow, !.request = request]

\* The task once call_tool has its result, having sent nothing.
Failed(name, arguments, exc, message) ==
    [Idle EXCEPT !.phase = "done", !.name = name, !.arguments = arguments,
                 !.exc = exc, !.result = CallToolResult(Raised(exc, message))]

\* The task once the request ended in `outcome`.
Completed(task, response, outcome) ==
    [task EXCEPT !.phase = "done", !.response = response, !.exc = outcome.exc,
                 !.result = CallToolResult(outcome)]

(***************************************************************************)
(* The arguments a caller may hand to call_tool.                           *)
(***************************************************************************)
ToolNames == {LIST_FAULTS, GET_FAULT_DETAILS, "delete_fault"}

OptionalStrs == {Absent, None, StrV(<<>>), StrV(<<"boom">>)}

OptionalInts == {Absent, None, IntV(0), IntV(7)}

Limits == {Absent, None, IntV(10), IntV(SchemaMaximum + 1)}

Orders == {Absent, StrV(<<"recent">>), StrV(<<"oldest">>)}

FaultIds ==
    {Absent, None, StrV(<<>>), StrV(<<"12">>), StrV(<<"abc", " ", "123">>),
     StrV(<<"12", "/", "34">>)}

ListFaultsArguments ==
    {[NoArguments EXCEPT !["q"] = q, !["created_after"] = ca,
                         !["occurred_after"] = oa, !["occurred_before"] = ob,
                         !["limit"] = lim, !["order"] = ord] :
        q \in OptionalStrs, ca \in OptionalInts, oa \in OptionalInts,
        ob \in OptionalInts, lim \in Limits, ord \in Orders}

GetFaultDetailsArguments ==
    {[NoArguments EXCEPT !["fault_id"] = id, !["created_after"] = ca,
                         !["created_before"] = cb, !["limit"] = lim] :
        id \in FaultIds, ca \in OptionalInts, cb \in OptionalInts,
        lim \in Limits}

Arguments(name) ==
    CASE name = LIST_FAULTS -> ListFaultsArguments
      [] name = GET_FAULT_DETAILS -> GetFaultDetailsArguments
      [] OTHER -> {NoArguments}

\* The calls of the runs that follow several handler tasks at once.
FewArguments(name) ==
    CASE name = LIST_FAULTS -> {NoArguments}
      [] name = GET_FAULT_DETAILS ->
            {NoArguments, [NoArguments EXCEPT !["fault_id"] = StrV(<<"12">>)]}
      [] OTHER -> {NoArguments}

(***************************************************************************)
(* serve() and honeybadger_lifespan.                                       *)
(***************************************************************************)
InitWith(handlers) ==
    /\ pc = "start"
    /\ project_id \in {<<>>, <<"p1">>}
    /\ api_key \in {<<>>, <<"hbp_key">>}
    /\ client = "none"
    /\ opened = 0
    /\ closed = 0
    /\ registered = FALSE
    /\ error = "none"
    /\ everServed = FALSE
    /\ tasks = [t \in handlers |-> Idle]

\* async with honeybadger_lifespan(...): the checks, then the ClientSession.
LifespanEnter ==
    /\ pc = "start"
    /\ IF api_key = <<>> \/ project_id = <<>>
       THEN /\ pc' = "failed"
            /\ error' = "ValueError"
            /\ UNCHANGED <<client, opened>>
       ELSE /\ pc' = "lifespan"
            /\ client' = "open"
            /\ opened' = opened + 1
            /\ UNCHANGED error
    /\ UNCHANGED <<project_id, api_key, closed, registered, everServed, tasks>>

\* @server.call_tool(), inside the lifespan's scope.
RegisterCallTool ==
    /\ pc = "lifespan"
    /\ pc' = "registered"
    /\ registered' = TRUE
    /\ UNCHANGED <<project_id, api_key, client, opened, closed, error,
                   everServed, tasks>>

\* async with stdio_server() entered, server.run started.
StdioEnter ==
    /\ pc = "registered"
    /\ pc' = "running"
    /\ UNCHANGED <<project_id, api_key, client, opened, closed, registered,
                   error, everServed, tasks>>

\* stdio_server() raises on entry.
StdioFail ==
    /\ pc = "registered"
    /\ pc' = "unwinding"
    /\ error' = "transport"
    /\ UNCHANGED <<project_id, api_key, client, opened, closed, registered,
                   everServed, tasks>>

\* server.run returns: its input ended and its handler tasks are finished.
RunReturn ==
    /\ pc = "running"
    /\ \A t \in DOMAIN tasks : tasks[t].phase = "idle"
    /\ pc' = "unwinding"
    /\ UNCHANGED <<project_id, api_key, client, opened, closed, registered,
                   error, everServed, tasks>>

\* server.run raises (raise_exceptions=True): its handler tasks are cancelled.
RunRaise ==
    /\ pc = "running"
    /\ pc' = "unwinding"
    /\ error' = "run"
    /\ tasks' = [t \in DOMAIN tasks |->
                    IF tasks[t].phase = "idle"
                    THEN tasks[t]
                    ELSE [tasks[t] EXCEPT !.phase = "cancelled"]]
    /\ UNCHANGED <<project_id, api_key, client, opened, closed, registered,
                   everServed>>

\* A mutant of LifespanExit: no try/finally around the yield, so that the
\* client is closed only when the body ends without an exception.
LifespanExitNoFinally ==
    /\ pc = "unwinding"
    /\ pc' = "done"
    /\ IF error = "none"
       THEN client' = "closed" /\ closed' = closed + 1
       ELSE UNCHANGED <<client, closed>>
    /\ UNCHANGED <<project_id, api_key, opened, registered, error, everServed,
                   tasks>>

\* A mutant of LifespanExit: the transport and the run loop are outside the
\* async with block, so that the lifespan ends once call_tool is registered.
LifespanExitEarly ==
    /\ pc = "registered"
    /\ client = "open"
    /\ client' = "closed"
    /\ closed' = closed + 1
    /\ UNCHANGED <<pc, project_id, api_key, opened, registered, error,
                   everServed, tasks>>

\* The finally clause of honeybadger_lifespan: await client.close().
LifespanExit ==
    /\ pc = "unwinding"
    /\ pc' = "done"
    /\ client' = "closed"
    /\ closed' = closed + 1
    /\ UNCHANGED <<project_id, api_key, opened, registered, error, everServed,
                   tasks>>

(***************************************************************************)
(* call_tool.                                                              *)
(***************************************************************************)
\* call_tool up to its first await: the arguments are read, the request is
\* built and handed to the client, or an exception ends the call.
CallToolStart(name, arguments, projectId, clientNow) ==
    CASE name = LIST_FAULTS ->
            IF ~ListFaultsRequestValid(arguments)
            THEN Failed(name, arguments, "ValidationError",
                        <<"1 validation error for ListFaultsRequest">>)
            ELSE LET request == ListFaultsRequest(arguments)
                 IN  Awaiting(name, arguments,
                              Request(projectId, ListFaultsEndpoint,
                                      ListFaultsParams(request.q,
                                                       request.created_after,
                                                       request.occurred_after,
                                                       request.occurred_before,
                                                       request.limit,
                                                       request.order)),
                              clientNow)
      [] name = GET_FAULT_DETAILS ->
            IF arguments["fault_id"] = Absent
            THEN Failed(name, arguments, "KeyError", <<"'fault_id'">>)
            ELSE Awaiting(name, arguments,
                          Request(projectId,
                                  GetFaultDetailsEndpoint(arguments["fault_id"]),
                                  GetFaultDetailsParams(
                                      ArgGet(arguments, "created_after", None),
                                      ArgGet(arguments, "created_before", None),
                                      ArgGet(arguments, "limit",
                                             IntV(GetFaultDetailsDefaultLimit)))),
                          clientNow)
      [] OTHER ->
            Failed(name, arguments, "ValueError", <<"Unknown tool: ", name>>)

CallTool(t, name, arguments) ==
    /\ pc = "running"
    /\ registered
    /\ tasks[t].phase = "idle"
    /\ everServed' = TRUE
    /\ tasks' = [tasks EXCEPT
                    ![t] = CallToolStart(name, arguments, project_id, client)]
    /\ UNCHANGED <<pc, project_id, api_key, client, opened, closed, registered,
                   error>>

\* The upstream answers: make_request returns or raises, call_tool ends.
Respond(t, response) ==
    /\ tasks[t].phase = "awaiting"
    /\ tasks' = [tasks EXCEPT
                    ![t] = Completed(tasks[t], response,
                                     MakeRequestResult(response))]
    /\ UNCHANGED <<pc, project_id, api_key, client, opened, closed, registered,
                   error, everServed>>

\* The request fails below HTTP: client.get raises, call_tool catches.
RequestFails(t) ==
    /\ tasks[t].phase = "awaiting"
    /\ tasks' = [tasks EXCEPT
                    ![t] = Completed(tasks[t], NoResponse,
                                     Raised("ClientConnectorError",
                                            <<"Cannot connect to host">>))]
    /\ UNCHANGED <<pc, project_id, api_key, client, opened, closed, registered,
                   error, everServed>>

\* The server sends call_tool's result; the handler task is over.
Deliver(t) ==
    /\ tasks[t].phase = "done"
    /\ tasks' = [tasks EXCEPT ![t] = Idle]
    /\ UNCHANGED <<pc, project_id, api_key, client, opened, closed, registered,
                   error, everServed>>

\* server.run reads a tools/call request and starts call_tool in a handler
\* task.
Dispatch ==
    /\ pc = "running"
    /\ \E t \in {x \in DOMAIN tasks : tasks[x].phase = "idle"} :
          \E name \in ToolNames :
              \E arguments \in Arguments(name) :
                  CallTool(t, name, arguments)

\* Dispatch, with the arguments of the runs of several handler tasks.
DispatchFew ==
    /\ pc = "running"
    /\ \E t \in {x \in DOMAIN tasks : tasks[x].phase = "idle"} :
          \E name \in ToolNames :
              \E arguments \in FewArguments(name) :
                  CallTool(t, name, arguments)

Lifecycle ==
    \/ LifespanEnter
    \/ RegisterCallTool
    \/ StdioEnter
    \/ StdioFail
    \/ RunReturn
    \/ RunRaise
    \/ LifespanExit

Progress ==
    \/ \E t \in DOMAIN tasks, response \in Responses : Respond(t, response)
    \/ \E t \in DOMAIN tasks : RequestFails(t)
    \/ \E t \in DOMAIN tasks : Deliver(t)

(***************************************************************************)
(* Spec: one handler task, every argument.  SpecServe: MaxTasks handler    *)
(* tasks at once, few arguments.                                           *)
(***************************************************************************)
Init == InitWith({1})

Next ==
    \/ Lifecycle
    \/ Progress
    \/ Dispatch

Spec == Init /\ [][Next]_vars

InitServe == InitWith(1 .. MaxTasks)

NextServe ==
    \/ Lifecycle
    \/ Progress
    \/ DispatchFew

SpecServe == InitServe /\ [][NextServe]_vars

(***************************************************************************)
(* The claims.                                                             *)
(***************************************************************************)
Tools == {LIST_FAULTS, GET_FAULT_DETAILS}

SuccessKey(name) == IF name = LIST_FAULTS THEN "faults" ELSE "notices"

\* A call of one of the two tools that has its result.
Finished(t) == tasks[t].phase = "done" /\ tasks[t].name \in Tools

\* A call whose request went out and was answered with an HTTP response.
Answered(t) ==
    /\ Finished(t)
    /\ tasks[t].sent = 1
    /\ tasks[t].response.status \in Statuses

\* C1: every finished call of list_faults or get_fault_details has a result
\* with exactly one of its success key (faults, notices) and the key error.
C1_SuccessKeyOrError ==
    \A t \in DOMAIN tasks :
        Finished(t) =>
            (SuccessKey(tasks[t].name) \in DOMAIN tasks[t].result)
                # ("error" \in DOMAIN tasks[t].result)

\* C2: a call answered with status 200 and a JSON payload P has the result
\* {faults: P} (list_faults) or {notices: P} (get_fault_details).
C2_PayloadUnderSuccessKey ==
    \A t \in DOMAIN tasks :
        (/\ Answered(t)
         /\ tasks[t].response.status = HttpOk
         /\ JsonValid(tasks[t].response.body)) =>
            tasks[t].result =
                (SuccessKey(tasks[t].name) :> JsonV(tasks[t].response.body))

\* C3: a call answered with a status S other than 200 and the body B has the
\* result {error: "HTTP S - B"}, returned and not raised; status 404 with the
\* body "Not Found" gives {error: "HTTP 404 - Not Found"}.
C3_NonOkIsHttpErrorResult ==
    \A t \in DOMAIN tasks :
        (Answered(t) /\ tasks[t].response.status # HttpOk) =>
            /\ tasks[t].exc = ""
            /\ DOMAIN tasks[t].result = {"error"}
            /\ tasks[t].result["error"] =
                   StrV(<<"HTTP ", StatusText(tasks[t].response.status), " - ">>
                            \o tasks[t].response.body)
            /\ (tasks[t].response = [status |-> 404, body |-> <<"Not Found">>] =>
                   tasks[t].result["error"].s =
                       <<"HTTP ", "404", " - ", "Not Found">>)

\* C3, reached: get_fault_details answered 404 "Not Found".
C3_Witness ==
    \E t \in DOMAIN tasks :
        /\ Answered(t)
        /\ tasks[t].name = GET_FAULT_DETAILS
        /\ tasks[t].response = [status |-> 404, body |-> <<"Not Found">>]
        /\ tasks[t].result =
               ("error" :> StrV(<<"HTTP ", "404", " - ", "Not Found">>))

\* C4: a call of get_fault_details with an empty fault_id sends no request
\* and ends with an error result.
C4_EmptyFaultIdSendsNothing ==
    \A t \in DOMAIN tasks :
        (/\ tasks[t].phase # "idle"
         /\ tasks[t].name = GET_FAULT_DETAILS
         /\ tasks[t].arguments["fault_id"] = StrV(<<>>)) =>
            /\ tasks[t].sent = 0
            /\ (tasks[t].phase = "done" => "error" \in DOMAIN tasks[t].result)

DefaultLimit(name) ==
    IF name = LIST_FAULTS
    THEN ListFaultsDefaultLimit
    ELSE GetFaultDetailsDefaultLimit

\* C5: a request sent for a call that left limit unset carries the tool's
\* default (25, 1), and no request carries a limit greater than 25.
C5_LimitDefaultAndCeiling ==
    \A t \in DOMAIN tasks :
        tasks[t].sent = 1 =>
            LET params == tasks[t].request.params
            IN  /\ tasks[t].arguments["limit"] = Absent =>
                       /\ "limit" \in DOMAIN params
                       /\ params["limit"] = IntV(DefaultLimit(tasks[t].name))
                /\ "limit" \in DOMAIN params =>
                       params["limit"].i <= SchemaMaximum

OptionalFilters(name) ==
    IF name = LIST_FAULTS
    THEN {"q", "created_after", "occurred_after", "occurred_before"}
    ELSE {"created_after", "created_before"}

\* The caller gave the key a value: it is neither missing nor None.
Supplied(v) == v.tag \notin {"absent", "none"}

\* C6: the parameters of a request hold an optional filter's key exactly
\* when the caller supplied a value for it, and then with that value.
C6_FilterSentIffSupplied ==
    \A t \in DOMAIN tasks :
        tasks[t].sent = 1 =>
            \A k \in OptionalFilters(tasks[t].name) :
                LET params == tasks[t].request.params
                IN  /\ (k \in DOMAIN params) <=> Supplied(tasks[t].arguments[k])
                    /\ k \in DOMAIN params => params[k] = tasks[t].arguments[k]

\* C6, reached: list_faults with q = "", created_after = 0, occurred_after
\* None and occurred_before missing sends q and created_after only.
C6_Witness ==
    \E t \in DOMAIN tasks :
        /\ tasks[t].sent = 1
        /\ tasks[t].name = LIST_FAULTS
        /\ tasks[t].arguments["q"] = StrV(<<>>)
        /\ tasks[t].arguments["created_after"] = IntV(0)
        /\ tasks[t].arguments["occurred_after"] = None
        /\ tasks[t].arguments["occurred_before"] = Absent
        /\ DOMAIN tasks[t].request.params =
               {"q", "created_after", "limit", "order"}

\* C7: the client is never closed twice, and once serve() has ended, however
\* it ended, a client that was opened has been closed exactly once.
C7_ClientClosedExactlyOnce ==
    /\ closed <= opened
    /\ opened <= 1
    /\ client = "open" => closed = 0
    /\ (pc \in {"done", "failed"} /\ opened = 1) =>
           (closed = 1 /\ client = "closed")

\* C7, reached: the transport failed after the client was opened, and
\* serve() has ended with the client closed.
C7_Witness ==
    /\ pc = "done"
    /\ error = "transport"
    /\ opened = 1
    /\ closed = 1

IsHttpErrorText(message) ==
    /\ Len(message) >= 3
    /\ message[1] = "HTTP "
    /\ message[3] = " - "

PathEscape(text) ==
    [n \in DOMAIN text |->
        CASE text[n] = " " -> "%20"
          [] text[n] = "/" -> "%2F"
          [] text[n] = "?" -> "%3F"
          [] text[n] = "#" -> "%23"
          [] OTHER -> text[n]]

\* C9: the URL requested for get_fault_details holds the fault id
\* path-escaped: /projects/<project_id>/faults/<escaped fault id>/notices.
C9_FaultIdPathEscaped ==
    \A t \in DOMAIN tasks :
        (/\ tasks[t].sent = 1
         /\ tasks[t].name = GET_FAULT_DETAILS
         /\ tasks[t].arguments["fault_id"].tag = "str") =>
            tasks[t].request.url =
                <<HONEYBADGER_API_BASE_URL, "/projects/">> \o project_id
                    \o <<"/faults/">>
                    \o PathEscape(tasks[t].arguments["fault_id"].s)
                    \o <<"/notices">>

\* C10: every request is sent while the client is open, a request in flight
\* implies an open client and a running server, and no call is served
\* unless the lifespan was entered and call_tool registered.
C10_RequestsWhileClientOpen ==
    /\ \A t \in DOMAIN tasks :
           /\ tasks[t].sent = 1 => tasks[t].clientAtSend = "open"
           /\ tasks[t].phase = "awaiting" => (client = "open" /\ pc = "running")
    /\ everServed => (registered /\ opened = 1)
    /\ pc = "failed" => (~everServed /\ ~registered /\ client = "none")

\* C10, reached: a call was in flight when the run loop ended, and the
\* client has been closed since.
C10_Witness ==
    \E t \in DOMAIN tasks :
        /\ tasks[t].phase = "cancelled"
        /\ tasks[t].sent = 1
        /\ tasks[t].clientAtSend = "open"
        /\ client = "closed"
====
